---- MODULE Spec2Model ----
(***************************************************************************)
(* Model of src/parallel_executor.py: the three strategy executors         *)
(* (ForkExecutor, ThreadExecutor, SubshellExecutor), their result          *)
(* aggregation and ParallelExecutor.execute.                               *)
(*                                                                         *)
(* Time is a discrete clock `now` in seconds.  It advances only to the     *)
(* next pending deadline (a child finishing, the per-iteration ceiling, a  *)
(* reaped child, the expiry of a collection wait); steps of the Python     *)
(* code between two blocking calls take no model time.                     *)
(***************************************************************************)
EXTENDS Integers, Sequences, FiniteSets, TLC

\* ---------------------------------------------------------------- bounds
MaxIter == 2          \* largest requested iteration count
MaxCpu  == 2          \* largest multiprocessing.cpu_count() of the host
MaxDur  == 2          \* longest run time (s) of a command that exits by itself
MaxReap == 5          \* longest time (s) subprocess.run needs to kill and reap
                      \* a child after its timeout fired
MaxLag  == 1          \* most whole seconds between two successive reads of the clock
                      \* at the end of a run
MaxPoolIter == 4      \* largest iteration count of a pool run of `sleep d`
RecMaxIter == 10      \* largest iteration count of a run drawn for the recommendations

\* ------------------------------------------------------ program constants
IterationTimeout == 10    \* subprocess.run(..., timeout=10)
CollectTimeout   == 12    \* future.result(timeout=12)
MaxWorkersCap    == 8     \* min(iterations, cpu_count(), 8)
TimeoutSentinel  == 124   \* os._exit(124) / 'return_code': 124
DefaultIterations == 5    \* add_argument('--iterations', type=int, default=5)
ExceptionExit    == 1     \* os._exit(1) in the forked child
NoStatus         == -1    \* 'exit_status': -1 / 'return_code': -1
SubshellTimeoutTime == 10 \* 'execution_time': 10.0 in the subshell timeout handler

\* ---------------------------------------------------------------- helpers
Min2(a, b) == IF a <= b THEN a ELSE b

Last(s) == s[Len(s)]

RECURSIVE SumSeq(_)
SumSeq(s) == IF s = <<>> THEN 0 ELSE Head(s) + SumSeq(Tail(s))

RECURSIVE SumSqSeq(_)
SumSqSeq(s) == IF s = <<>> THEN 0 ELSE Head(s) * Head(s) + SumSqSeq(Tail(s))

RECURSIVE MinSeq(_)
MinSeq(s) == IF Len(s) = 1 THEN Head(s) ELSE Min2(Head(s), MinSeq(Tail(s)))

RECURSIVE MaxSeq(_)
MaxSeq(s) == IF Len(s) = 1 THEN Head(s)
             ELSE IF Head(s) >= MaxSeq(Tail(s)) THEN Head(s) ELSE MaxSeq(Tail(s))

SetMin(S) == CHOOSE x \in S : \A y \in S : x <= y

\* dict.update: the keys of s added to (or replacing those of) r
Merge(r, s) == [k \in DOMAIN r \cup DOMAIN s |-> IF k \in DOMAIN s THEN s[k] ELSE r[k]]

\* Non-integral numbers are exact rationals num/den with den > 0
Rat(a, b) == [num |-> a, den |-> b]
RatLess(x, y) == x.num * y.den < y.num * x.den
RatLeq(x, y)  == x.num * y.den <= y.num * x.den
RatEq(x, y)   == x.num * y.den = y.num * x.den
RatMin(x, y)  == IF RatLeq(x, y) THEN x ELSE y

\* The strategy selectors; "process" stands for any unrecognized selector.
Strategies     == {"fork", "thread", "subshell"}
ExecutionTypes == Strategies \cup {"process"}

\* --------------------------------------------------- the benchmarked command
\* What one spawn of the command does:
\*   exit    : the command runs `dur` seconds and ends with return code rc
\*             (rc < 0: killed by signal -rc, as subprocess reports it);
\*   hang    : the command outlives the 10 s ceiling; subprocess.run kills it
\*             and needs `reap` more seconds to reap it before it raises
\*             TimeoutExpired;
\*   oserror : the spawn itself raises FileNotFoundError / OSError.
ReturnCodes == {0, 3, -9}

ExitBehaviours ==
    {[kind |-> "exit", rc |-> 0, dur |-> d, reap |-> 0] : d \in 1..MaxDur}
    \cup {[kind |-> "exit", rc |-> c, dur |-> 1, reap |-> 0] : c \in ReturnCodes \ {0}}

HangBehaviours ==
    {[kind |-> "hang", rc |-> 0, dur |-> IterationTimeout, reap |-> r] : r \in {0, MaxReap}}

OsErrorBehaviour == [kind |-> "oserror", rc |-> 0, dur |-> 0, reap |-> 0]

\* A missing executable fails every spawn; an existing one can still fail a
\* single spawn with an OS-level error (EAGAIN, ENOMEM, ...).
Behaviours(missing) ==
    IF missing THEN {OsErrorBehaviour}
    ELSE ExitBehaviours \cup HangBehaviours \cup {OsErrorBehaviour}

\* `sleep d`: every spawn runs d seconds and ends with return code 0
SleepBehaviour(d) == [kind |-> "exit", rc |-> 0, dur |-> d, reap |-> 0]

\* `echo Erreur: ...`: every spawn ends at once with return code 0
EchoBehaviour == [kind |-> "exit", rc |-> 0, dur |-> 0, reap |-> 0]

\* ------------------------------------------- CodeCompiler.compile_if_needed
\* A source file: its lower-cased extension and what running its compiler
\* does: "ok" (return code 0), "nonzero" (return code not 0), "timeout"
\* (TimeoutExpired after 30 s), "oserror" (the compiler cannot be spawned),
\* "noclass" (javac wrote no <class_name>.class), "none" (nothing to compile).
CompilerOutcomes == {"ok", "nonzero", "timeout", "oserror"}

CompiledExtensions == {".java", ".cpp", ".c", ".go"}

InterpretedExtensions == {".py", ".js", ".sh", ".rb", ".php", ".pl", ".txt"}

Sources ==
    {[ext |-> e, compiler |-> c] : e \in CompiledExtensions, c \in CompilerOutcomes}
    \cup {[ext |-> ".java", compiler |-> "noclass"]}
    \cup {[ext |-> e, compiler |-> "none"] : e \in InterpretedExtensions}

PythonSource == [ext |-> ".py", compiler |-> "none"]

\* except Exception as e: return (['echo', f'Erreur: {e}'], "<lang>_error")
EchoError(tag) == [command |-> <<"echo", "Erreur">>, compile_info |-> tag]

\* Mutant of _compile_cpp: a failing compiler run is not caught.
CompileCppRaises(src) ==
    IF src.compiler = "ok"
    THEN [command |-> <<"cpp_executable">>, compile_info |-> "cpp_compiled"]
    ELSE [command |-> <<>>, compile_info |-> "raised"]

_compile_java(src) ==
    IF src.compiler = "ok"
    THEN [command |-> <<"java", "-cp", "temp_dir", "class_name">>,
          compile_info |-> "java_compiled"]
    ELSE EchoError("java_error")

_compile_cpp(src) ==
    IF src.compiler = "ok"
    THEN [command |-> <<"cpp_executable">>, compile_info |-> "cpp_compiled"]
    ELSE EchoError("cpp_error")

_compile_c(src) ==
    IF src.compiler = "ok"
    THEN [command |-> <<"c_executable">>, compile_info |-> "c_compiled"]
    ELSE EchoError("c_error")

_compile_go(src) ==
    IF src.compiler = "ok"
    THEN [command |-> <<"go_executable">>, compile_info |-> "go_compiled"]
    ELSE EchoError("go_error")

\* command_map.get(ext, (['python3', file_path], "unknown"))
_get_interpreter_command(ext) ==
    IF ext = ".py" THEN [command |-> <<"python3", "file_path">>, compile_info |-> "python"]
    ELSE IF ext = ".js" THEN [command |-> <<"node", "file_path">>, compile_info |-> "javascript"]
    ELSE IF ext = ".sh" THEN [command |-> <<"bash", "file_path">>, compile_info |-> "bash"]
    ELSE IF ext = ".rb" THEN [command |-> <<"ruby", "file_path">>, compile_info |-> "ruby"]
    ELSE IF ext = ".php" THEN [command |-> <<"php", "file_path">>, compile_info |-> "php"]
    ELSE IF ext = ".pl" THEN [command |-> <<"perl", "file_path">>, compile_info |-> "perl"]
    ELSE [command |-> <<"python3", "file_path">>, compile_info |-> "unknown"]

compile_if_needed(src) ==
    IF src.ext = ".java" THEN _compile_java(src)
    ELSE IF src.ext = ".cpp" THEN _compile_cpp(src)
    ELSE IF src.ext = ".c" THEN _compile_c(src)
    ELSE IF src.ext = ".go" THEN _compile_go(src)
    ELSE _get_interpreter_command(src.ext)

\* ------------------------------------------------- the extra arguments
\* program_args is None (NoArgs) or a string, kept as <<s>> with s the
\* sequence of its characters
NoArgs == <<>>

Whitespace == {" ", "\t"}

\* The characters of a word as one string
RECURSIVE Join(_)
Join(word) == IF word = <<>> THEN "" ELSE Head(word) \o Join(Tail(word))

\* str.split() from the character s[1] on, `word` being the characters of
\* the word being read
RECURSIVE SplitFrom(_, _)
SplitFrom(s, word) ==
    IF s = <<>>
    THEN IF word = <<>> THEN <<>> ELSE <<Join(word)>>
    ELSE IF Head(s) \in Whitespace
    THEN (IF word = <<>> THEN <<>> ELSE <<Join(word)>>) \o SplitFrom(Tail(s), <<>>)
    ELSE SplitFrom(Tail(s), Append(word, Head(s)))

\* str.split(): the words between runs of whitespace
split(s) == SplitFrom(s, <<>>)

\* `if program_args:` -- neither None nor the empty string
Truthy(extra) == extra # NoArgs /\ extra[1] # <<>>

\* command = self.command.copy(); if program_args:
\* command.extend(program_args.split())
ResolveCommand(stored, extra) ==
    IF Truthy(extra) THEN stored \o split(extra[1]) ELSE stored

\* The values of program_args: None, "", " ", " -n  4" and "x"
ProgramArgs ==
    {NoArgs, <<(<<>>)>>, <<(<<" ">>)>>, <<(<<" ", "-", "n", " ", "\t", "4">>)>>, <<(<<"x">>)>>}

\* ------------------------------------------------------------ aggregation
\* An iteration outcome.  exit_status is the 'exit_status' of the fork
\* strategy and the 'return_code' of the other two; thread_id is 0 outside
\* the worker pool; error tells whether the dict carries an 'error' key.
Outcome(it, t, st, ok, tid, err) ==
    [iteration |-> it, execution_time |-> t, exit_status |-> st,
     success |-> ok, thread_id |-> tid, error |-> err]

\* successful_results = [r for r in results if r.get('success', False)]
successful_results(results) == SelectSeq(results, LAMBDA r : r.success)

RawTimes(results) ==
    [k \in 1..Len(successful_results(results)) |->
        successful_results(results)[k].execution_time]

\* Mutant of execution_times: the [0.0] fallback is forgotten.
execution_times_no_fallback(results) == RawTimes(results)

\* execution_times, with the [0.0] fallback
execution_times(results) ==
    IF RawTimes(results) = <<>> THEN <<0>> ELSE RawTimes(results)

\* statistics.mean: a rational num/den; raises on no data
mean(xs) ==
    IF Len(xs) = 0 THEN "StatisticsError"
    ELSE [num |-> SumSeq(xs), den |-> Len(xs)]

\* statistics.stdev: the sample standard deviation.  The model keeps its
\* square, the sample variance (n*sum(x^2) - sum(x)^2) / (n*(n-1)), as a
\* rational; the square root is 0 exactly when the variance is.  Fewer than
\* two data points raise.
stdev(xs) ==
    IF Len(xs) < 2 THEN "StatisticsError"
    ELSE [sq_num |-> Len(xs) * SumSqSeq(xs) - SumSeq(xs) * SumSeq(xs),
          sq_den |-> Len(xs) * (Len(xs) - 1)]

ZeroStdev == [sq_num |-> 0, sq_den |-> 1]

\* the 'execution_times' dict of the three _analyze_*_results
TimeStats(xs) ==
    [values |-> xs,
     mean   |-> mean(xs),
     stdev  |-> IF Len(xs) > 1 THEN stdev(xs) ELSE ZeroStdev,
     min    |-> IF Len(xs) = 0 THEN "ValueError" ELSE MinSeq(xs),
     max    |-> IF Len(xs) = 0 THEN "ValueError" ELSE MaxSeq(xs)]

\* len(set(r['thread_id'] for r in results))
unique_threads(results) ==
    Cardinality({results[k].thread_id : k \in 1..Len(results)})

\* Mutant of StrategyResult: only outcomes carrying an 'error' key count as failed.
StrategyResultErrorsOnly(type, results) ==
    [execution_type        |-> type,
     total_iterations      |-> Len(results),
     successful_iterations |-> Len(successful_results(results)),
     failed_iterations     |-> Len(SelectSeq(results, LAMBDA r : r.error)),
     execution_times       |-> TimeStats(execution_times(results)),
     metrics               |-> results,
     unique_threads_used   |-> unique_threads(results)]

StrategyResult(type, results) ==
    [execution_type        |-> type,
     total_iterations      |-> Len(results),
     successful_iterations |-> Len(successful_results(results)),
     failed_iterations     |-> Len(results) - Len(successful_results(results)),
     execution_times       |-> TimeStats(execution_times(results)),
     metrics               |-> results,
     unique_threads_used   |-> unique_threads(results)]

\* len(successful) / len(results) if results else 0
SuccessRate(results) ==
    IF results # <<>> THEN Rat(Len(successful_results(results)), Len(results))
    ELSE Rat(0, 1)

_calculate_fork_efficiency(results) == [success_rate |-> SuccessRate(results)]

_analyze_fork_results(results) ==
    Merge(StrategyResult("fork", results),
          [parallel_efficiency |-> _calculate_fork_efficiency(results)])

_analyze_subshell_isolation(results) ==
    [success_rate |-> SuccessRate(results), isolation_efficiency |-> SuccessRate(results)]

_analyze_subshell_results(results) ==
    Merge(StrategyResult("subshell", results),
          [isolation_analysis |-> _analyze_subshell_isolation(results)])

\* sequential_time / (total_time * threads_used), capped at 1.0; 0.0 without
\* a success or a positive wall-clock time
_calculate_thread_efficiency(results, total_time) ==
    IF successful_results(results) = <<>> \/ total_time <= 0 THEN Rat(0, 1)
    ELSE LET sequential_time == SumSeq(RawTimes(results))
             theoretical_parallel_time == total_time * unique_threads(results)
             efficiency == IF theoretical_parallel_time > 0
                           THEN Rat(sequential_time, theoretical_parallel_time)
                           ELSE Rat(0, 1)
         IN  RatMin(efficiency, Rat(1, 1))

\* Mutant of actual_parallelism: the branch for a run without a success is
\* left out.
actual_parallelism_unguarded(results, total_time) ==
    IF total_time > 0 THEN Rat(SumSeq(execution_times(results)), total_time)
    ELSE Rat(1, 1)

\* sequential_time / parallel_time, 1.0 when parallel_time is not positive,
\* 0.0 without a success
actual_parallelism(results, total_time) ==
    IF successful_results(results) # <<>>
    THEN IF total_time > 0 THEN Rat(SumSeq(execution_times(results)), total_time)
         ELSE Rat(1, 1)
    ELSE Rat(0, 1)

\* The pool analysis has its own branch for an empty outcome list.
_analyze_thread_results(results, total_time) ==
    IF results = <<>>
    THEN [execution_type        |-> "thread",
          total_iterations      |-> 0,
          successful_iterations |-> 0,
          failed_iterations     |-> 0,
          execution_times       |-> [values |-> <<0>>,
                                     mean   |-> [num |-> 0, den |-> 1],
                                     stdev  |-> ZeroStdev,
                                     min    |-> 0,
                                     max    |-> 0],
          metrics               |-> <<>>,
          unique_threads_used   |-> 0,
          concurrency_analysis  |-> [success_rate       |-> Rat(0, 1),
                                     thread_efficiency  |-> Rat(0, 1),
                                     actual_parallelism |-> Rat(0, 1)]]
    ELSE Merge(StrategyResult("thread", results),
               [concurrency_analysis |->
                   [success_rate       |-> SuccessRate(results),
                    thread_efficiency  |-> _calculate_thread_efficiency(results, total_time),
                    actual_parallelism |-> actual_parallelism(results, total_time)]])

\* ------------------------------------------------------------------ state
VARIABLES
    pc,              \* position of ParallelExecutor.execute
    error,           \* the exception execute raised, "none" while it has not
    execution_type,  \* argument of execute
    iterations,      \* argument of execute
    cpu_count,       \* multiprocessing.cpu_count() of the host
    missing,         \* the resolved command names no spawnable executable
    preflight,       \* what the pre-flight spawn did
    now,             \* seconds since start_total_time
    stage,           \* "warmup": the one-iteration pool run before the measured one
    n,               \* `iterations` parameter of the running strategy executor
    results,         \* `results` list of the running strategy executor
    i,               \* loop variable of the sequential strategies
    child,           \* the process a sequential strategy is waiting for
    tasks,           \* pool strategy: the unit of work of every iteration
    results_lock,    \* pool strategy: iteration whose worker holds the lock, 0 if free
    fut,             \* pool strategy: index of the future being collected
    wait_deadline,   \* pool strategy: expiry of the running future.result(timeout=12)
    logged,          \* pool strategy: futures whose collection wait expired
    completed,       \* pool strategy: `completed` counter
    spawned,         \* how many times the command was spawned so far
    ret,             \* the dict execute returned, NoResult before
    saved,           \* JSON documents written to output_dir
    save_logged,     \* "Erreur lors de la sauvegarde" was printed
    sleep,           \* d > 0: the command is `sleep d` and nothing disturbs the
                     \* run; 0: any command
    start_execution, \* pool strategy: `start_execution` of the running pool
    procs,           \* sequential strategies: processes created, not yet waited for
    child_pids,      \* fork strategy: self.child_pids
    argv,            \* the command line main parses
    main_pc,         \* position of main, "none" when execute is called directly
    exit_code,       \* status main exited with, NoExit while it has not
    recommendations, \* the list _generate_recommendations returned
    json_name,       \* `timestamp` in the name of the JSON document, NoName before
    report_name,     \* `timestamp` in the name of the Markdown report, NoName before
    interrupted,     \* a KeyboardInterrupt was raised while main was in execute
    source,          \* the file given to ParallelExecutor: extension, what compiling it does
    self_command,    \* self.command
    compile_info,    \* self.compile_info
    program_args,    \* argument of execute: None, or a string
    command,         \* local `command` of execute: the argv of this call
    previous         \* what the call of execute before this one did

vars == <<pc, error, execution_type, iterations, cpu_count, missing, preflight,
          now, stage, n, results, i, child, tasks, results_lock, fut,
          wait_deadline, logged, completed, spawned, ret, saved, save_logged,
          sleep, start_execution, procs, child_pids, argv, main_pc, exit_code,
          recommendations, json_name, report_name, interrupted, source,
          self_command, compile_info, program_args, command, previous>>

\* main and the report generator: execute leaves their state alone
callervars == <<argv, main_pc, exit_code, recommendations, report_name, interrupted>>

\* The arguments of execute and what the constructor was given
inputs   == <<execution_type, iterations, cpu_count, missing, sleep, source,
              compile_info, program_args, previous, callervars>>
args     == <<inputs, self_command>>
poolvars == <<tasks, results_lock, fut, wait_deadline, logged, completed, start_execution>>
seqvars  == <<i, child, procs, child_pids>>
outvars  == <<ret, saved, save_logged, json_name>>

NoResult == [execution_type |-> "none"]
NoChild  == [st |-> "none"]
NoArgv   == [file_exists |-> TRUE]
NoExit   == -1
NoName   == -1
NoCommand == <<>>
NoPrevious == [called |-> FALSE]

\* What one spawn of the command can do in this run
SpawnBehaviours ==
    IF self_command # NoCommand /\ Head(self_command) = "echo" THEN {EchoBehaviour}
    ELSE IF sleep > 0 THEN {SleepBehaviour(sleep)} ELSE Behaviours(missing)

\* main is not running: execute is called through the API
CallerIdle ==
    /\ argv = NoArgv
    /\ main_pc = "none"
    /\ exit_code = NoExit
    /\ recommendations = <<>>
    /\ report_name = NoName
    /\ interrupted = FALSE

\* ParallelExecutor(file_path, ...) was constructed on an interpreted file
Constructed ==
    /\ source = PythonSource
    /\ self_command = compile_if_needed(PythonSource).command
    /\ compile_info = compile_if_needed(PythonSource).compile_info

\* The state of a ParallelExecutor that has not run execute
FreshExecutor ==
    /\ json_name = NoName
    /\ command = NoCommand
    /\ previous = NoPrevious
    /\ error = "none"
    /\ preflight = "none"
    /\ now = 0
    /\ stage = "measured"
    /\ n = 0
    /\ results = <<>>
    /\ i = 0
    /\ child = NoChild
    /\ tasks = <<>>
    /\ results_lock = 0
    /\ fut = 0
    /\ wait_deadline = 0
    /\ logged = {}
    /\ completed = 0
    /\ spawned = 0
    /\ ret = NoResult
    /\ saved = {}
    /\ save_logged = FALSE
    /\ start_execution = 0
    /\ procs = {}
    /\ child_pids = <<>>

Init ==
    /\ execution_type \in ExecutionTypes
    /\ iterations \in 0..MaxIter
    /\ cpu_count \in 1..MaxCpu
    /\ missing \in BOOLEAN
    /\ sleep = 0
    /\ pc = "execute"
    /\ Constructed
    /\ program_args = NoArgs
    /\ FreshExecutor
    /\ CallerIdle

\* ------------------------------------------------- ParallelExecutor.execute
\* Mutant of _test_command_optimized: an OS-level spawn error passes like any
\* other exception.
TestCommandAlwaysPasses(beh) == TRUE

\* Mutant of _test_command_optimized: a timeout fails the check, as in the
\* unused _test_command.
TestCommandTimeoutFails(beh) == beh.kind = "exit"

\* _test_command_optimized: one spawn with a 1 s (thread) or 2 s timeout.
\* False only for FileNotFoundError / OSError; a timeout or any exit is True.
_test_command_optimized(beh) == beh.kind # "oserror"

PreflightOutcome(beh) ==
    IF beh.kind = "oserror" THEN "oserror"
    ELSE IF beh.kind = "hang" \/ beh.dur >= (IF execution_type = "thread" THEN 1 ELSE 2)
         THEN "timeout"
         ELSE "exited"

\* Mutant of Preflight: the selector is validated before the command is
\* spawned.
PreflightValidatesFirst ==
    /\ pc = "execute"
    /\ command' = ResolveCommand(self_command, program_args)
    /\ self_command' = self_command
    /\ IF execution_type \notin Strategies
       THEN /\ pc' = "raised" /\ error' = "ValueError"
            /\ UNCHANGED <<preflight, spawned>>
       ELSE /\ \E beh \in SpawnBehaviours :
                /\ preflight' = PreflightOutcome(beh)
                /\ IF _test_command_optimized(beh)
                   THEN pc' = "dispatch" /\ error' = error
                   ELSE pc' = "raised" /\ error' = "Exception"
            /\ spawned' = spawned + 1
    /\ UNCHANGED <<inputs, now, stage, n, results, seqvars, poolvars, outvars>>

\* Mutant of Preflight: the extra arguments are appended to the stored
\* command itself, not to a copy of it.
PreflightExtendsInPlace ==
    /\ pc = "execute"
    /\ command' = ResolveCommand(self_command, program_args)
    /\ self_command' = command'
    /\ \E beh \in SpawnBehaviours :
        /\ preflight' = PreflightOutcome(beh)
        /\ IF _test_command_optimized(beh)
           THEN pc' = "dispatch" /\ error' = error
           ELSE pc' = "raised" /\ error' = "Exception"
    /\ spawned' = spawned + 1
    /\ UNCHANGED <<inputs, now, stage, n, results, seqvars, poolvars, outvars>>

\* execute up to `start_total_time = time.time()`: the command of this call
\* is a copy of the stored one with the extra arguments appended, and the
\* pre-flight spawns it once
Preflight ==
    /\ pc = "execute"
    /\ command' = ResolveCommand(self_command, program_args)
    /\ self_command' = self_command
    /\ \E beh \in SpawnBehaviours :
        /\ preflight' = PreflightOutcome(beh)
        /\ IF _test_command_optimized(beh)
           THEN pc' = "dispatch" /\ error' = error
           ELSE pc' = "raised" /\ error' = "Exception"
    /\ spawned' = spawned + 1
    /\ UNCHANGED <<inputs, now, stage, n, results, seqvars, poolvars, outvars>>

\* if execution_type == 'fork': executor = ForkExecutor(self.collector), whose
\* child_pids list is new; executor.execute_with_fork(command, iterations)
DispatchFork ==
    /\ pc = "dispatch"
    /\ execution_type = "fork"
    /\ pc' = "fork_loop"
    /\ n' = iterations
    /\ results' = <<>>
    /\ i' = 0
    /\ child_pids' = <<>>
    /\ UNCHANGED <<error, args, preflight, command, now, stage, child, procs,
                   poolvars, spawned, outvars>>

\* elif execution_type == 'thread': a one-iteration run first when
\* iterations > 1, then the measured run
DispatchThread ==
    /\ pc = "dispatch"
    /\ execution_type = "thread"
    /\ pc' = "thread_submit"
    /\ stage' = IF iterations > 1 THEN "warmup" ELSE "measured"
    /\ n' = IF iterations > 1 THEN 1 ELSE iterations
    /\ results' = <<>>
    /\ UNCHANGED <<error, args, preflight, command, now, seqvars, poolvars, spawned, outvars>>

\* elif execution_type == 'subshell': ... execute_with_subshells(command, iterations)
DispatchSubshell ==
    /\ pc = "dispatch"
    /\ execution_type = "subshell"
    /\ pc' = "subshell_loop"
    /\ n' = iterations
    /\ results' = <<>>
    /\ i' = 0
    /\ UNCHANGED <<error, args, preflight, command, now, stage, child, procs, child_pids,
                   poolvars, spawned, outvars>>

\* Mutant of DispatchUnsupported: an unrecognized selector falls back to the
\* per-process strategy.
DispatchUnsupportedFallsBack ==
    /\ pc = "dispatch"
    /\ execution_type \notin Strategies
    /\ pc' = "subshell_loop"
    /\ error' = error
    /\ UNCHANGED <<args, preflight, command, now, stage, n, results, seqvars, poolvars,
                   spawned, outvars>>

\* else: raise ValueError(...)
DispatchUnsupported ==
    /\ pc = "dispatch"
    /\ execution_type \notin Strategies
    /\ pc' = "raised"
    /\ error' = "ValueError"
    /\ UNCHANGED <<args, preflight, command, now, stage, n, results, seqvars, poolvars,
                   spawned, outvars>>

\* -------------------------------------------- ForkExecutor.execute_with_fork
\* What the forked child passes to os._exit: the command's return code, the
\* sentinel on TimeoutExpired, 1 on any other exception.
ForkChildExit(beh) ==
    IF beh.kind = "exit" THEN beh.rc
    ELSE IF beh.kind = "hang" THEN TimeoutSentinel
    ELSE ExceptionExit

\* Mutant of WEXITSTATUS: a negative code is reported as 0.
ExitStatusClamped(code) == IF code < 0 THEN 0 ELSE code

\* os.WEXITSTATUS of a child that called os._exit(code): the low 8 bits
WEXITSTATUS(code) == code % 256

\* When the process spawned with behaviour beh is over for its waiter
RunTime(beh) == IF beh.kind = "hang" THEN IterationTimeout + beh.reap ELSE beh.dur

\* The command of an iteration whose waitpid does not report an exit
PlainBehaviour(gone) ==
    IF gone THEN OsErrorBehaviour ELSE [kind |-> "exit", rc |-> 0, dur |-> 1, reap |-> 0]

\* How os.waitpid ends for the parent: the child exited, the child was
\* killed by a signal (not WIFEXITED), or waitpid raised OSError.
WaitOutcomes == {"exited", "signaled", "oserror"}

\* The dict the parent appends for iteration it
ForkOutcome(it, c, end_time) ==
    IF c.wait = "oserror"
    THEN Outcome(it, end_time - c.start, NoStatus, FALSE, 0, TRUE)
    ELSE IF c.wait = "signaled"
    THEN Outcome(it, end_time - c.start, NoStatus, FALSE, 0, FALSE)
    ELSE Outcome(it, end_time - c.start, WEXITSTATUS(ForkChildExit(c.beh)),
                 WEXITSTATUS(ForkChildExit(c.beh)) = 0, 0, FALSE)

\* Mutant of ForkSpawn: the parent forks the next child without waiting for
\* the one it has.
ForkSpawnNoWait ==
    /\ pc \in {"fork_loop", "fork_wait"}
    /\ i < n
    /\ \E beh \in SpawnBehaviours, w \in WaitOutcomes :
        /\ w # "exited" => beh = PlainBehaviour(missing)
        /\ sleep > 0 => w = "exited"
        /\ child' = [st |-> "running", beh |-> beh, wait |-> w, start |-> now,
                     due |-> now + RunTime(beh)]
    /\ child_pids' = Append(child_pids, Len(child_pids) + 1)
    /\ procs' = procs \cup {Len(child_pids) + 1}
    /\ spawned' = spawned + 1
    /\ pc' = "fork_wait"
    /\ UNCHANGED <<error, args, preflight, command, now, stage, n, results, i, poolvars, outvars>>

\* start_time = time.time(); pid = os.fork(); the child runs the command.
\* The pid of the k-th child of the run is k.
ForkSpawn ==
    /\ pc = "fork_loop"
    /\ i < n
    /\ \E beh \in SpawnBehaviours, w \in WaitOutcomes :
        /\ w # "exited" => beh = PlainBehaviour(missing)
        /\ sleep > 0 => w = "exited"
        /\ child' = [st |-> "running", beh |-> beh, wait |-> w, start |-> now,
                     due |-> now + RunTime(beh)]
    /\ child_pids' = Append(child_pids, Len(child_pids) + 1)
    /\ procs' = procs \cup {Len(child_pids) + 1}
    /\ spawned' = spawned + 1
    /\ pc' = "fork_wait"
    /\ UNCHANGED <<error, args, preflight, command, now, stage, n, results, i, poolvars, outvars>>

\* Mutant of ForkReap: the OSError of os.waitpid is not caught.
ForkReapRaises ==
    /\ pc = "fork_wait"
    /\ now = child.due
    /\ IF child.wait = "oserror"
       THEN /\ pc' = "raised"
            /\ error' = "Exception"
            /\ UNCHANGED <<results, i>>
       ELSE /\ results' = Append(results, ForkOutcome(i + 1, child, now))
            /\ i' = i + 1
            /\ pc' = "fork_loop"
            /\ error' = error
    /\ child' = NoChild
    /\ procs' = procs \ {Last(child_pids)}
    /\ UNCHANGED <<args, preflight, command, now, stage, n, child_pids, poolvars, spawned, outvars>>

\* Mutant of ForkReap: a child whose wait raised stays in the process table.
ForkReapLeavesZombie ==
    /\ pc = "fork_wait"
    /\ now = child.due
    /\ results' = Append(results, ForkOutcome(i + 1, child, now))
    /\ i' = i + 1
    /\ child' = NoChild
    /\ procs' = IF child.wait = "oserror" THEN procs ELSE procs \ {Last(child_pids)}
    /\ pc' = "fork_loop"
    /\ UNCHANGED <<error, args, preflight, command, now, stage, n, child_pids, poolvars, spawned,
                   outvars>>

\* os.waitpid(pid, 0) returns or raises; the parent appends one outcome.
\* waitpid(pid, 0) on the parent's own child raises only ECHILD (EINTR is
\* retried by the interpreter): the child has ended and has been collected
\* already, by the kernel (SIGCHLD ignored) or by another waiter, so it is
\* out of the process table either way.
ForkReap ==
    /\ pc = "fork_wait"
    /\ now = child.due
    /\ results' = Append(results, ForkOutcome(i + 1, child, now))
    /\ i' = i + 1
    /\ child' = NoChild
    /\ procs' = procs \ {Last(child_pids)}
    /\ pc' = "fork_loop"
    /\ UNCHANGED <<error, args, preflight, command, now, stage, n, child_pids, poolvars, spawned,
                   outvars>>

\* return self._analyze_fork_results(results)
ForkReturn ==
    /\ pc = "fork_loop"
    /\ i = n
    /\ ret' = _analyze_fork_results(results)
    /\ pc' = "merge"
    /\ UNCHANGED <<error, args, preflight, command, now, stage, n, results, seqvars, poolvars,
                   spawned, saved, save_logged, json_name>>

\* ------------------------------------ SubshellExecutor.execute_with_subshells
SubshellOutcome(it, c, end_time) ==
    IF c.beh.kind = "exit"
    THEN Outcome(it, end_time - c.start, c.beh.rc, c.beh.rc = 0, 0, FALSE)
    ELSE IF c.beh.kind = "hang"
    THEN Outcome(it, SubshellTimeoutTime, NoStatus, FALSE, 0, TRUE)
    ELSE Outcome(it, 0, NoStatus, FALSE, 0, TRUE)

\* start_time = time.time(); subprocess.run(command, timeout=10, shell=False)
SubshellSpawn ==
    /\ pc = "subshell_loop"
    /\ i < n
    /\ \E beh \in SpawnBehaviours :
        /\ child' = [st |-> "running", beh |-> beh, wait |-> "exited", start |-> now,
                     due |-> now + RunTime(beh)]
        /\ procs' = IF beh.kind = "oserror" THEN procs ELSE procs \cup {i + 1}
    /\ spawned' = spawned + 1
    /\ pc' = "subshell_wait"
    /\ UNCHANGED <<error, args, preflight, command, now, stage, n, results, i, child_pids, poolvars,
                   outvars>>

\* subprocess.run returns or raises; one outcome is appended
SubshellDone ==
    /\ pc = "subshell_wait"
    /\ now = child.due
    /\ results' = Append(results, SubshellOutcome(i + 1, child, now))
    /\ i' = i + 1
    /\ child' = NoChild
    /\ procs' = procs \ {i + 1}
    /\ pc' = "subshell_loop"
    /\ UNCHANGED <<error, args, preflight, command, now, stage, n, child_pids, poolvars, spawned,
                   outvars>>

\* return self._analyze_subshell_results(results)
SubshellReturn ==
    /\ pc = "subshell_loop"
    /\ i = n
    /\ ret' = _analyze_subshell_results(results)
    /\ pc' = "merge"
    /\ UNCHANGED <<error, args, preflight, command, now, stage, n, results, seqvars, poolvars,
                   spawned, saved, save_logged, json_name>>

\* ----------------------------------------- ThreadExecutor.execute_with_threads
\* Mutant of optimal_workers: the host's CPU count is left out.
optimal_workers_no_cpu(iters, cpus) == Min2(iters, MaxWorkersCap)

\* Mutant of optimal_workers: the pool has a single worker.
optimal_workers_single(iters, cpus) == Min2(iters, 1)

\* optimal_workers = min(iterations, multiprocessing.cpu_count(), 8)
optimal_workers(iters, cpus) == Min2(Min2(iters, cpus), MaxWorkersCap)

NoOutcome == Outcome(0, 0, 0, FALSE, 0, FALSE)

QueuedTask == [st |-> "queued", worker |-> 0, start |-> 0, due |-> 0,
               beh |-> OsErrorBehaviour, out |-> NoOutcome]

\* Task states in which a pool worker is inside run_single_iteration
BusyStates == {"child", "reaping", "ready", "locked"}
\* ... and in which it is blocked in subprocess.run
BlockedStates == {"child", "reaping"}

Busy(k)       == tasks[k].st \in BusyStates
BusyWorkers   == {tasks[k].worker : k \in {j \in 1..Len(tasks) : Busy(j)}}
UsedWorkers   == {tasks[k].worker : k \in {j \in 1..Len(tasks) : tasks[j].st # "queued"}}
QueuedTasks   == {k \in 1..Len(tasks) : tasks[k].st = "queued"}

\* The dict run_single_iteration appends for iteration k
ThreadOutcome(k, t, end_time) ==
    IF t.beh.kind = "exit"
    THEN Outcome(k, end_time - t.start, t.beh.rc, t.beh.rc = 0, t.worker, FALSE)
    ELSE IF t.beh.kind = "hang"
    THEN Outcome(k, end_time - t.start, TimeoutSentinel, FALSE, t.worker, TRUE)
    ELSE Outcome(k, end_time - t.start, NoStatus, FALSE, t.worker, TRUE)

\* with ThreadPoolExecutor(max_workers=optimal_workers): submit every iteration
ThreadSubmit ==
    /\ pc = "thread_submit"
    /\ optimal_workers(n, cpu_count) > 0
    /\ tasks' = [k \in 1..n |-> QueuedTask]
    /\ results_lock' = 0
    /\ fut' = 1
    /\ wait_deadline' = now + CollectTimeout
    /\ logged' = {}
    /\ completed' = 0
    /\ start_execution' = now
    /\ pc' = "thread_collect"
    /\ UNCHANGED <<error, args, preflight, command, now, stage, n, results, seqvars, spawned,
                   outvars>>

\* Mutant of ThreadPoolRejected: a pool of no worker is accepted.
ThreadPoolAcceptsZero ==
    /\ pc = "thread_submit"
    /\ optimal_workers(n, cpu_count) <= 0
    /\ pc' = "thread_shutdown"
    /\ error' = error
    /\ UNCHANGED <<args, preflight, command, now, stage, n, results, seqvars, poolvars,
                   spawned, outvars>>

\* ThreadPoolExecutor(max_workers=0) raises ValueError; the measured run is
\* not wrapped in a try, so execute raises it
ThreadPoolRejected ==
    /\ pc = "thread_submit"
    /\ optimal_workers(n, cpu_count) <= 0
    /\ pc' = "raised"
    /\ error' = "ValueError"
    /\ UNCHANGED <<args, preflight, command, now, stage, n, results, seqvars, poolvars,
                   spawned, outvars>>

\* A free worker w takes the oldest queued unit k and spawns the command.
\* Workers are numbered in the order they first take a unit.
TaskStart(k, w) ==
    /\ pc \in {"thread_collect", "thread_shutdown"}
    /\ QueuedTasks # {}
    /\ k = SetMin(QueuedTasks)
    /\ w \in 1..optimal_workers(n, cpu_count)
    /\ w \notin BusyWorkers
    /\ \A v \in 1..(w - 1) : v \in UsedWorkers
    /\ \E beh \in SpawnBehaviours :
        tasks' = [tasks EXCEPT ![k] =
                    [st |-> "child", worker |-> w, start |-> now,
                     due |-> now + beh.dur, beh |-> beh, out |-> NoOutcome]]
    /\ spawned' = spawned + 1
    /\ UNCHANGED <<pc, error, args, preflight, command, now, stage, n, results, seqvars,
                   results_lock, fut, wait_deadline, logged, completed, start_execution, outvars>>

\* The 10 s ceiling of unit k fires: subprocess.run kills the child and
\* waits for it before it raises TimeoutExpired
TaskCeiling(k) ==
    /\ k \in 1..Len(tasks)
    /\ tasks[k].st = "child"
    /\ tasks[k].beh.kind = "hang"
    /\ now = tasks[k].due
    /\ tasks' = [tasks EXCEPT ![k].st = "reaping", ![k].due = now + tasks[k].beh.reap]
    /\ UNCHANGED <<pc, error, args, preflight, command, now, stage, n, results, seqvars,
                   results_lock, fut, wait_deadline, logged, completed, start_execution, spawned,
                   outvars>>

\* subprocess.run of unit k returns or raises: end_time = time.time() and the
\* outcome dict is built
TaskFinish(k) ==
    /\ k \in 1..Len(tasks)
    /\ \/ tasks[k].st = "child" /\ tasks[k].beh.kind # "hang"
       \/ tasks[k].st = "reaping"
    /\ now = tasks[k].due
    /\ tasks' = [tasks EXCEPT ![k].st = "ready", ![k].out = ThreadOutcome(k, tasks[k], now)]
    /\ UNCHANGED <<pc, error, args, preflight, command, now, stage, n, results, seqvars,
                   results_lock, fut, wait_deadline, logged, completed, start_execution, spawned,
                   outvars>>

\* with results_lock: (entry)
TaskAcquire(k) ==
    /\ k \in 1..Len(tasks)
    /\ tasks[k].st = "ready"
    /\ results_lock = 0
    /\ results_lock' = k
    /\ tasks' = [tasks EXCEPT ![k].st = "locked"]
    /\ UNCHANGED <<pc, error, args, preflight, command, now, stage, n, results, seqvars,
                   fut, wait_deadline, logged, completed, start_execution, spawned,
                   outvars>>

\* Mutant of TaskAppend: the TimeoutExpired handler does not append.
TaskAppendTimeoutDropped(k) ==
    /\ k \in 1..Len(tasks)
    /\ tasks[k].st = "locked"
    /\ results_lock = k
    /\ results' = IF tasks[k].beh.kind = "hang" THEN results
                  ELSE Append(results, tasks[k].out)
    /\ results_lock' = 0
    /\ tasks' = [tasks EXCEPT ![k].st = "done"]
    /\ UNCHANGED <<pc, error, args, preflight, command, now, stage, n, seqvars,
                   fut, wait_deadline, logged, completed, start_execution, spawned,
                   outvars>>

\* Mutant of TaskAppend: the append is made without the lock.
TaskAppendUnlocked(k) ==
    /\ k \in 1..Len(tasks)
    /\ tasks[k].st \in {"ready", "locked"}
    /\ results' = Append(results, tasks[k].out)
    /\ results_lock' = IF results_lock = k THEN 0 ELSE results_lock
    /\ tasks' = [tasks EXCEPT ![k].st = "done"]
    /\ UNCHANGED <<pc, error, args, preflight, command, now, stage, n, seqvars,
                   fut, wait_deadline, logged, completed, start_execution, spawned,
                   outvars>>

\* results.append(...) and the exit of the with block; the future is done
TaskAppend(k) ==
    /\ k \in 1..Len(tasks)
    /\ tasks[k].st = "locked"
    /\ results_lock = k
    /\ results' = Append(results, tasks[k].out)
    /\ results_lock' = 0
    /\ tasks' = [tasks EXCEPT ![k].st = "done"]
    /\ UNCHANGED <<pc, error, args, preflight, command, now, stage, n, seqvars,
                   fut, wait_deadline, logged, completed, start_execution, spawned,
                   outvars>>

\* after future.result(timeout=12) returned or raised: the next future
NextFuture ==
    /\ fut' = fut + 1
    /\ wait_deadline' = now + CollectTimeout
    /\ pc' = IF fut = n THEN "thread_shutdown" ELSE "thread_collect"

\* future.result(timeout=12) returns: completed += 1
CollectResult ==
    /\ pc = "thread_collect"
    /\ tasks[fut].st = "done"
    /\ completed' = completed + 1
    /\ NextFuture
    /\ UNCHANGED <<error, args, preflight, command, now, stage, n, results, seqvars, tasks,
                   results_lock, logged, start_execution, spawned, outvars>>

\* future.result(timeout=12) raises TimeoutError: "Thread task failed" is printed
CollectExpired ==
    /\ pc = "thread_collect"
    /\ tasks[fut].st # "done"
    /\ now = wait_deadline
    /\ logged' = logged \cup {fut}
    /\ NextFuture
    /\ UNCHANGED <<error, args, preflight, command, now, stage, n, results, seqvars, tasks,
                   results_lock, completed, start_execution, spawned, outvars>>

AllDone == \A k \in 1..Len(tasks) : tasks[k].st = "done"

\* Exit of the with block (shutdown(wait=True)) of the one-iteration run made
\* when iterations > 1; its result is dropped and the measured run starts
WarmupReturn ==
    /\ pc = "thread_shutdown"
    /\ stage = "warmup"
    /\ AllDone
    /\ stage' = "measured"
    /\ n' = iterations
    /\ results' = <<>>
    /\ tasks' = <<>>
    /\ pc' = "thread_submit"
    /\ UNCHANGED <<error, args, preflight, command, now, seqvars, results_lock, fut,
                   wait_deadline, logged, completed, start_execution, spawned, outvars>>

\* Exit of the with block of the measured run and
\* return self._analyze_thread_results(results, ...)
ThreadReturn ==
    /\ pc = "thread_shutdown"
    /\ stage = "measured"
    /\ AllDone
    /\ ret' = _analyze_thread_results(results, now - start_execution)
    /\ pc' = "merge"
    /\ UNCHANGED <<error, args, preflight, command, now, stage, n, results, seqvars, poolvars,
                   spawned, saved, save_logged, json_name>>

\* -------------------------------------------------------------------- time
\* The instants at which a blocked call of the program wakes up
Deadlines ==
    (IF pc \in {"fork_wait", "subshell_wait"} THEN {child.due} ELSE {})
    \cup (IF pc = "thread_collect" THEN {wait_deadline} ELSE {})
    \cup (IF pc \in {"thread_collect", "thread_shutdown"}
          THEN {tasks[k].due : k \in {j \in 1..Len(tasks) : tasks[j].st \in BlockedStates}}
          ELSE {})

\* Some thread of the program can take a step without waiting
Runnable ==
    /\ pc \in {"thread_collect", "thread_shutdown"}
    /\ \/ \E k \in 1..Len(tasks) : tasks[k].st \in {"ready", "locked"}
       \/ QueuedTasks # {} /\ Cardinality(BusyWorkers) < optimal_workers(n, cpu_count)
       \/ pc = "thread_collect" /\ tasks[fut].st = "done"

\* Every thread is blocked: the clock moves to the next deadline
Advance ==
    /\ Deadlines # {}
    /\ \A d \in Deadlines : d > now
    /\ ~Runnable
    /\ now' = SetMin(Deadlines)
    /\ UNCHANGED <<pc, error, args, preflight, command, stage, n, results, seqvars, poolvars,
                   spawned, outvars>>

\* ------------------------------------------------------ the end of execute
\* The metadata execute adds to the strategy's dict; 'timestamp' is the clock
\* read right after end_total_time, in whole seconds since start_total_time
BenchmarkRun(r, total) ==
    Merge(r, [total_execution_time |-> total, timestamp |-> total])

\* Mutant of SaveAndReturn: a failed write of the JSON document is not caught.
SaveAndReturnRaises ==
    /\ pc = "merge"
    /\ \E written \in BOOLEAN :
        /\ saved' = IF written THEN saved \cup {BenchmarkRun(ret, now)} ELSE saved
        /\ save_logged' = FALSE
        /\ ret' = IF written THEN BenchmarkRun(ret, now) ELSE NoResult
        /\ pc' = IF written THEN "returned" ELSE "raised"
        /\ error' = IF written THEN error ELSE "Exception"
    /\ \E lag \in 0..MaxLag : json_name' = now + lag
    /\ UNCHANGED <<args, preflight, command, now, stage, n, results, seqvars, poolvars, spawned>>

\* results['total_execution_time'] = ...; results['timestamp'] = time.time();
\* results['system_info'] = self._get_system_info(), which samples the CPU
\* for 0.1 s; self._save_results(results), which names the document after
\* its own int(time.time()), up to MaxLag whole seconds later; return
\* results.  A failed write of the JSON document is only printed.
SaveAndReturn ==
    /\ pc = "merge"
    /\ ret' = BenchmarkRun(ret, now)
    /\ \E lag \in 0..MaxLag : json_name' = now + lag
    /\ \E written \in BOOLEAN :
        /\ saved' = IF written THEN saved \cup {BenchmarkRun(ret, now)} ELSE saved
        /\ save_logged' = ~written
    /\ pc' = "returned"
    /\ UNCHANGED <<error, args, preflight, command, now, stage, n, results, seqvars, poolvars,
                   spawned>>

\* ------------------------------ ParallelExecutor._generate_recommendations
\* The messages, by the rule that appends them:
\*   failure_rate      "Taux d'echec eleve - verifiez la stabilite du code ..."
\*   variability       "Forte variabilite detectee - ..."
\*   too_small         "Temps d'execution tres faible - augmentez la charge ..."
\*   fork_short        "Fork: Temps d'execution tres court - ..."
\*   fork_failure      "Fork: Taux d'echec eleve - ..."
\*   thread_efficiency "Thread: Faible efficacite - ..."
\*   thread_underuse   "Thread: Sous-utilisation des threads disponibles"
\*   isolation         "Subshell: Efficacite d'isolation faible - ..."
\*   slow              "Temps d'execution eleve - ..."
\*   imprecise         "Temps d'execution tres faible - les mesures peuvent ..."
\*   acceptable        "Performance acceptable avec la methode d'execution choisie"
When(cond, message) == IF cond THEN <<message>> ELSE <<>>

\* successful_iterations / max(total_iterations, 1)
success_rate(run) ==
    Rat(run.successful_iterations,
        IF run.total_iterations >= 1 THEN run.total_iterations ELSE 1)

mean_time(run) == run.execution_times.mean

\* stdev_time > mean_time * 0.3, on the squares: both sides are >= 0
StdevAbove30Percent(run) ==
    100 * run.execution_times.stdev.sq_num * mean_time(run).den * mean_time(run).den
        > 9 * mean_time(run).num * mean_time(run).num * run.execution_times.stdev.sq_den

\* if success_rate < 0.9: ...
FailureAdvice(run) == When(RatLess(success_rate(run), Rat(9, 10)), "failure_rate")

\* if stdev_time > mean_time * 0.3: ...
VariabilityAdvice(run) == When(StdevAbove30Percent(run), "variability")

\* if mean_time < 0.001: ...
SmallLoadAdvice(run) == When(RatLess(mean_time(run), Rat(1, 1000)), "too_small")

\* if exec_type == 'fork': ... elif 'thread': ... elif 'subshell': ...
StrategyAdvice(run, cpus) ==
    IF run.execution_type = "fork"
    THEN When(RatLess(mean_time(run), Rat(1, 100)), "fork_short")
         \o When(RatLess(run.parallel_efficiency.success_rate, Rat(9, 10)), "fork_failure")
    ELSE IF run.execution_type = "thread"
    THEN When(RatLess(run.concurrency_analysis.thread_efficiency, Rat(1, 2)),
              "thread_efficiency")
         \o When(run.unique_threads_used < Min2(run.total_iterations, cpus),
                 "thread_underuse")
    ELSE IF run.execution_type = "subshell"
    THEN When(RatLess(run.isolation_analysis.isolation_efficiency, Rat(8, 10)), "isolation")
    ELSE <<>>

\* if mean_time > 1.0: ... elif mean_time < 0.001: ...
DurationAdvice(run) ==
    IF RatLess(Rat(1, 1), mean_time(run)) THEN <<"slow">>
    ELSE When(RatLess(mean_time(run), Rat(1, 1000)), "imprecise")

\* if not recommendations: recommendations.append("Performance acceptable ...")
OrAcceptable(list) == IF list = <<>> THEN <<"acceptable">> ELSE list

\* Mutant of _generate_recommendations: the fork strategy has no rules of its own.
RecommendationsWithoutForkRules(run, cpus) ==
    OrAcceptable(FailureAdvice(run) \o VariabilityAdvice(run) \o SmallLoadAdvice(run)
                 \o (IF run.execution_type = "fork" THEN <<>> ELSE StrategyAdvice(run, cpus))
                 \o DurationAdvice(run))

\* Mutant of _generate_recommendations: the rule on success_rate is left out.
RecommendationsWithoutFailureRule(run, cpus) ==
    OrAcceptable(VariabilityAdvice(run) \o SmallLoadAdvice(run)
                 \o StrategyAdvice(run, cpus) \o DurationAdvice(run))

\* Mutant of _generate_recommendations: the first rule on mean_time < 0.001
\* is left out.
RecommendationsWithoutSmallLoad(run, cpus) ==
    OrAcceptable(FailureAdvice(run) \o VariabilityAdvice(run)
                 \o StrategyAdvice(run, cpus) \o DurationAdvice(run))

\* cpus is multiprocessing.cpu_count() at the time of the call
_generate_recommendations(run, cpus) ==
    OrAcceptable(FailureAdvice(run) \o VariabilityAdvice(run) \o SmallLoadAdvice(run)
                 \o StrategyAdvice(run, cpus) \o DurationAdvice(run))

Next ==
    \/ Preflight
    \/ DispatchFork
    \/ DispatchThread
    \/ DispatchSubshell
    \/ DispatchUnsupported
    \/ ForkSpawn
    \/ ForkReap
    \/ ForkReturn
    \/ SubshellSpawn
    \/ SubshellDone
    \/ SubshellReturn
    \/ ThreadSubmit
    \/ ThreadPoolRejected
    \/ \E k \in 1..MaxIter + 1, w \in 1..MaxCpu + 1 : TaskStart(k, w)
    \/ \E k \in 1..MaxIter + 1 : TaskCeiling(k)
    \/ \E k \in 1..MaxIter + 1 : TaskFinish(k)
    \/ \E k \in 1..MaxIter + 1 : TaskAcquire(k)
    \/ \E k \in 1..MaxIter + 1 : TaskAppend(k)
    \/ CollectResult
    \/ CollectExpired
    \/ ThreadReturn
    \/ WarmupReturn
    \/ SaveAndReturn
    \/ Advance

Spec == Init /\ [][Next]_vars

\* ------------------------------------------- a pool run of `sleep d`
\* execute('thread', N) on a command of fixed duration that always succeeds
InitSleep ==
    /\ execution_type = "thread"
    /\ iterations \in 1..MaxPoolIter
    /\ cpu_count \in 1..MaxCpu
    /\ missing = FALSE
    /\ sleep \in 1..MaxDur
    /\ pc = "execute"
    /\ Constructed
    /\ program_args = NoArgs
    /\ FreshExecutor
    /\ CallerIdle

\* The steps such a run can take: no ceiling fires, no collection wait expires
NextSleep ==
    \/ Preflight
    \/ DispatchThread
    \/ ThreadSubmit
    \/ \E k \in 1..MaxPoolIter, w \in 1..MaxCpu : TaskStart(k, w)
    \/ \E k \in 1..MaxPoolIter : TaskFinish(k)
    \/ \E k \in 1..MaxPoolIter : TaskAcquire(k)
    \/ \E k \in 1..MaxPoolIter : TaskAppend(k)
    \/ CollectResult
    \/ WarmupReturn
    \/ ThreadReturn
    \/ SaveAndReturn
    \/ Advance

SpecSleep == InitSleep /\ [][NextSleep]_vars

\* -------------------------------------------------------------------- main
\* An option of the command line is <<>> when it is not given, <<value>> when
\* it is.  parse_args fills in the defaults.
parse_args(a) ==
    [iterations     |-> IF a.iterations = <<>> THEN DefaultIterations ELSE a.iterations[1],
     test_level     |-> IF a.test_level = <<>> THEN "medium" ELSE a.test_level[1],
     execution_type |-> a.execution_type,
     file_exists    |-> a.file_exists]

iterations_map == [light |-> 3, medium |-> 5, heavy |-> 10]

\* iterations = iterations_map.get(args.test_level, args.iterations)
MainIterations(a) ==
    IF a.test_level \in DOMAIN iterations_map THEN iterations_map[a.test_level]
    ELSE a.iterations

\* The command lines tried: --execution-type is required, --file names an
\* existing file or not
CommandLines ==
    [iterations     : {<<>>, <<1>>, <<7>>},
     test_level     : {<<>>, <<"light">>, <<"medium">>, <<"heavy">>},
     execution_type : Strategies,
     file_exists    : BOOLEAN]

\* main on a single-CPU host, on an interpreted file whose command is
\* `sleep 1` or cannot be spawned
InitMain ==
    /\ argv \in CommandLines
    /\ main_pc = "parse"
    /\ exit_code = NoExit
    /\ recommendations = <<>>
    /\ report_name = NoName
    /\ interrupted = FALSE
    /\ execution_type = "unset"
    /\ iterations = 0
    /\ cpu_count = 1
    /\ \/ missing = FALSE /\ sleep = 1
       \/ missing = TRUE /\ sleep = 0
    /\ source = PythonSource
    /\ self_command = NoCommand
    /\ compile_info = "none"
    /\ program_args = NoArgs
    /\ pc = "idle"
    /\ FreshExecutor

execvars == <<pc, error, preflight, command, now, stage, n, results, seqvars, poolvars,
              spawned, outvars>>

\* What main reads and never writes
hostvars == <<cpu_count, missing, sleep, argv, source, program_args, previous>>

\* if not os.path.isfile(args.file): ... sys.exit(1)
MainFileMissing ==
    /\ main_pc = "parse"
    /\ ~parse_args(argv).file_exists
    /\ main_pc' = "exit"
    /\ exit_code' = 1
    /\ UNCHANGED <<execution_type, iterations, hostvars, recommendations, report_name,
                   interrupted, self_command, compile_info, execvars>>

\* os.makedirs(args.output, exist_ok=True) or tempfile.mkdtemp of the
\* constructor raises: nothing catches it and the interpreter exits with 1
MainSetupRaised ==
    /\ main_pc = "parse"
    /\ parse_args(argv).file_exists
    /\ main_pc' = "exit"
    /\ exit_code' = 1
    /\ UNCHANGED <<execution_type, iterations, hostvars, recommendations, report_name,
                   interrupted, self_command, compile_info, execvars>>

\* iterations = iterations_map.get(...); executor = ParallelExecutor(...);
\* executor.execute(args.execution_type, iterations, args.args) is entered
MainCallExecute ==
    /\ main_pc = "parse"
    /\ parse_args(argv).file_exists
    /\ iterations' = MainIterations(parse_args(argv))
    /\ execution_type' = parse_args(argv).execution_type
    /\ self_command' = compile_if_needed(source).command
    /\ compile_info' = compile_if_needed(source).compile_info
    /\ pc' = "execute"
    /\ main_pc' = "execute"
    /\ UNCHANGED <<hostvars, exit_code, recommendations, report_name, interrupted,
                   error, preflight, command, now, stage, n, results, seqvars,
                   poolvars, spawned, outvars>>

\* A KeyboardInterrupt is raised in the main thread while it is in execute.
\* In the one-iteration pool run made before the measured one it leaves the
\* with block, which waits for the pool, and is dropped by `except: pass`;
\* anywhere else it leaves execute.
KeyboardInterrupt ==
    /\ main_pc = "execute"
    /\ pc \in {"execute", "dispatch", "fork_loop", "fork_wait", "subshell_loop",
               "subshell_wait", "thread_submit", "thread_collect", "thread_shutdown",
               "merge"}
    /\ ~interrupted
    /\ interrupted' = TRUE
    /\ IF stage = "warmup" /\ pc \in {"thread_submit", "thread_collect", "thread_shutdown"}
       THEN pc' = "thread_shutdown" /\ error' = error
       ELSE pc' = "raised" /\ error' = "KeyboardInterrupt"
    /\ UNCHANGED <<execution_type, iterations, hostvars, main_pc, exit_code,
                   recommendations, report_name, self_command, compile_info,
                   preflight, command, now, stage, n, results, seqvars, poolvars,
                   spawned, outvars>>

\* execute returned: generate_comparison_report, timestamp = int(time.time())
\* up to MaxLag whole seconds after the JSON document was named, and the
\* write of the report; an exception of the write ends in sys.exit(1), else
\* main ends normally
MainReport ==
    /\ main_pc = "execute"
    /\ pc = "returned"
    /\ recommendations' = _generate_recommendations(ret, cpu_count)
    /\ \E lag \in 0..MaxLag : report_name' = json_name + lag
    /\ \E written \in BOOLEAN : exit_code' = IF written THEN 0 ELSE 1
    /\ main_pc' = "exit"
    /\ UNCHANGED <<execution_type, iterations, hostvars, interrupted, self_command,
                   compile_info, execvars>>

\* except Exception as e: ... sys.exit(1)
MainExecuteRaised ==
    /\ main_pc = "execute"
    /\ pc = "raised"
    /\ error # "KeyboardInterrupt"
    /\ main_pc' = "exit"
    /\ exit_code' = 1
    /\ UNCHANGED <<execution_type, iterations, hostvars, recommendations, report_name,
                   interrupted, self_command, compile_info, execvars>>

\* except KeyboardInterrupt: ... sys.exit(1)
MainInterrupted ==
    /\ main_pc = "execute"
    /\ pc = "raised"
    /\ error = "KeyboardInterrupt"
    /\ main_pc' = "exit"
    /\ exit_code' = 1
    /\ UNCHANGED <<execution_type, iterations, hostvars, recommendations, report_name,
                   interrupted, self_command, compile_info, execvars>>

\* The steps of main and of the execute it calls on such a command
NextMain ==
    \/ MainFileMissing
    \/ MainSetupRaised
    \/ MainCallExecute
    \/ KeyboardInterrupt
    \/ MainReport
    \/ MainExecuteRaised
    \/ MainInterrupted
    \/ Preflight
    \/ DispatchFork
    \/ DispatchThread
    \/ DispatchSubshell
    \/ ForkSpawn
    \/ ForkReap
    \/ ForkReturn
    \/ SubshellSpawn
    \/ SubshellDone
    \/ SubshellReturn
    \/ ThreadSubmit
    \/ \E k \in 1..iterations_map.heavy, w \in 1..MaxCpu : TaskStart(k, w)
    \/ \E k \in 1..iterations_map.heavy : TaskFinish(k)
    \/ \E k \in 1..iterations_map.heavy : TaskAcquire(k)
    \/ \E k \in 1..iterations_map.heavy : TaskAppend(k)
    \/ CollectResult
    \/ WarmupReturn
    \/ ThreadReturn
    \/ SaveAndReturn
    \/ Advance

SpecMain == InitMain /\ [][NextMain]_vars

\* ----------------------------- recommendations for a run of any statistics
\* Times below one second: a mean and a standard deviation proportional to it
MeanTimes ==
    {Rat(0, 1), Rat(1, 2000), Rat(1, 1000), Rat(1, 200), Rat(1, 100), Rat(1, 2),
     Rat(1, 1), Rat(2, 1)}

\* stdev = 0, stdev = mean / 4, stdev = mean, kept as squares
StdevsOf(m) ==
    {ZeroStdev,
     [sq_num |-> m.num * m.num, sq_den |-> 16 * m.den * m.den],
     [sq_num |-> m.num * m.num, sq_den |-> m.den * m.den]}

Efficiencies == {Rat(0, 1), Rat(1, 4), Rat(1, 2), Rat(1, 1)}

\* total_iterations of the runs drawn: none, one, two, and enough for a
\* success rate of 0.8 and of 0.9
RunSizes == {0, 1, 2, RecMaxIter}

\* The fields of a BenchmarkRun the recommendations read, as the strategy
\* analyses fill them in
RunOf(type, total, successful, m, sd, eff, threads) ==
    Merge([execution_type        |-> type,
           total_iterations      |-> total,
           successful_iterations |-> successful,
           execution_times       |-> [mean |-> m, stdev |-> sd]],
          IF type = "fork"
          THEN [parallel_efficiency |->
                   [success_rate |-> IF total > 0 THEN Rat(successful, total) ELSE Rat(0, 1)]]
          ELSE IF type = "thread"
          THEN [unique_threads_used |-> threads,
                concurrency_analysis |-> [thread_efficiency |-> eff]]
          ELSE [isolation_analysis |->
                   [isolation_efficiency |->
                       IF total > 0 THEN Rat(successful, total) ELSE Rat(0, 1)]])

\* A run the executors can return: without a success the mean is the 0.0
\* fallback, a standard deviation needs two successes, the pool metrics are
\* those of a pool of min(N, cpu_count, 8) workers
InitRec ==
    /\ cpu_count \in 1..MaxCpu
    /\ \E type \in Strategies, total \in RunSizes, successful \in 0..RecMaxIter,
          m \in MeanTimes, eff \in Efficiencies, threads \in 0..MaxCpu :
        \E sd \in StdevsOf(m) :
            /\ successful <= total
            /\ successful = 0 => m = Rat(0, 1)
            /\ successful <= 1 => sd = ZeroStdev
            /\ IF type = "thread"
               THEN /\ total >= 1
                    /\ threads >= 1
                    /\ threads <= optimal_workers(total, cpu_count)
                    /\ successful = 0 => eff = Rat(0, 1)
               ELSE threads = 0 /\ eff = Rat(0, 1)
            /\ ret = RunOf(type, total, successful, m, sd, eff, threads)
            /\ execution_type = type
            /\ iterations = total
    /\ missing = FALSE
    /\ sleep = 0
    /\ pc = "returned"
    /\ error = "none"
    /\ preflight = "exited"
    /\ now = 0
    /\ stage = "measured"
    /\ n = 0
    /\ results = <<>>
    /\ i = 0
    /\ child = NoChild
    /\ tasks = <<>>
    /\ results_lock = 0
    /\ fut = 0
    /\ wait_deadline = 0
    /\ logged = {}
    /\ completed = 0
    /\ spawned = 0
    /\ saved = {}
    /\ save_logged = FALSE
    /\ start_execution = 0
    /\ procs = {}
    /\ child_pids = <<>>
    /\ argv = NoArgv
    /\ main_pc = "report"
    /\ exit_code = NoExit
    /\ recommendations = <<>>
    /\ report_name = NoName
    /\ interrupted = FALSE
    /\ Constructed
    /\ program_args = NoArgs
    /\ json_name = 0
    /\ command = self_command
    /\ previous = NoPrevious

\* recommendations = self._generate_recommendations(results)
Recommend ==
    /\ main_pc = "report"
    /\ recommendations = <<>>
    /\ recommendations' = _generate_recommendations(ret, cpu_count)
    /\ UNCHANGED <<pc, error, execution_type, iterations, cpu_count, missing, sleep,
                   argv, main_pc, exit_code, report_name, interrupted, source,
                   self_command, compile_info, program_args, previous,
                   preflight, command, now, stage, n, results,
                   seqvars, poolvars, spawned, outvars>>

NextRec == Recommend

SpecRec == InitRec /\ [][NextRec]_vars

\* ------------------- recommendations regenerated for a stored pool run
\* multiprocessing.cpu_count() of the hosts: the small ones and one with more
\* logical CPUs than the pool's cap of 8 workers
Hosts == (1..MaxCpu) \cup {2 * MaxWorkersCap}

\* A pool run as execute_with_threads returns it on a host of cpu_count CPUs
InitRegen ==
    /\ cpu_count \in Hosts
    /\ \E total \in RunSizes, successful \in 0..RecMaxIter,
          m \in MeanTimes, eff \in Efficiencies, threads \in 1..MaxWorkersCap :
        /\ total >= 1
        /\ successful \in {0, total}
        /\ successful = 0 => m = Rat(0, 1) /\ eff = Rat(0, 1)
        /\ threads <= optimal_workers(total, cpu_count)
        /\ ret = RunOf("thread", total, successful, m, ZeroStdev, eff, threads)
        /\ iterations = total
    /\ execution_type = "thread"
    /\ missing = FALSE
    /\ sleep = 0
    /\ pc = "returned"
    /\ error = "none"
    /\ preflight = "exited"
    /\ now = 0
    /\ stage = "measured"
    /\ n = 0
    /\ results = <<>>
    /\ i = 0
    /\ child = NoChild
    /\ tasks = <<>>
    /\ results_lock = 0
    /\ fut = 0
    /\ wait_deadline = 0
    /\ logged = {}
    /\ completed = 0
    /\ spawned = 0
    /\ saved = {}
    /\ save_logged = FALSE
    /\ start_execution = 0
    /\ procs = {}
    /\ child_pids = <<>>
    /\ argv = NoArgv
    /\ main_pc = "report"
    /\ exit_code = NoExit
    /\ recommendations = <<>>
    /\ report_name = NoName
    /\ interrupted = FALSE
    /\ Constructed
    /\ program_args = NoArgs
    /\ json_name = 0
    /\ command = self_command
    /\ previous = NoPrevious

\* generate_comparison_report called again on the stored run, on a host of
\* c CPUs: _generate_recommendations reads multiprocessing.cpu_count() anew
Regenerate(c) ==
    /\ main_pc = "report"
    /\ recommendations # <<>>
    /\ cpu_count' = c
    /\ recommendations' = _generate_recommendations(ret, c)
    /\ UNCHANGED <<pc, error, execution_type, iterations, missing, sleep,
                   argv, main_pc, exit_code, report_name, interrupted, source,
                   self_command, compile_info, program_args, previous,
                   preflight, command, now, stage, n, results,
                   seqvars, poolvars, spawned, outvars>>

NextRegen ==
    \/ Recommend
    \/ \E c \in Hosts : Regenerate(c)

SpecRegen == InitRegen /\ [][NextRegen]_vars

\* ------------------------------------------- execute called a second time
\* The caller of the API on a single-CPU host, the command being `sleep 1`
\* or one that cannot be spawned, with any extra arguments
InitRepeat ==
    /\ execution_type \in ExecutionTypes
    /\ iterations \in 0..MaxIter
    /\ cpu_count = 1
    /\ \/ missing = FALSE /\ sleep = 1
       \/ missing = TRUE /\ sleep = 0
    /\ pc = "execute"
    /\ Constructed
    /\ program_args \in ProgramArgs
    /\ FreshExecutor
    /\ CallerIdle

\* executor.execute(execution_type, iterations, program_args) is called again
\* on the same object with the same arguments.  The locals of the call
\* that ended are gone; what the model keeps of them is overwritten by the
\* new call before it is read.
ExecuteAgain ==
    /\ main_pc = "none"
    /\ pc \in {"returned", "raised"}
    /\ ~previous.called
    /\ previous' = [called |-> TRUE, command |-> command, ret |-> ret,
                    error |-> error, spawned |-> spawned]
    /\ pc' = "execute"
    /\ error' = "none"
    /\ preflight' = "none"
    /\ command' = NoCommand
    /\ now' = 0
    /\ spawned' = 0
    /\ ret' = NoResult
    /\ UNCHANGED <<execution_type, iterations, cpu_count, missing, sleep, source,
                   compile_info, program_args, callervars, self_command, stage, n,
                   results, seqvars, poolvars, saved, save_logged, json_name>>

NextRepeat ==
    \/ Preflight
    \/ DispatchFork
    \/ DispatchThread
    \/ DispatchSubshell
    \/ DispatchUnsupported
    \/ ForkSpawn
    \/ ForkReap
    \/ ForkReturn
    \/ SubshellSpawn
    \/ SubshellDone
    \/ SubshellReturn
    \/ ThreadSubmit
    \/ ThreadPoolRejected
    \/ \E k \in 1..MaxIter, w \in 1..MaxCpu : TaskStart(k, w)
    \/ \E k \in 1..MaxIter : TaskFinish(k)
    \/ \E k \in 1..MaxIter : TaskAcquire(k)
    \/ \E k \in 1..MaxIter : TaskAppend(k)
    \/ CollectResult
    \/ WarmupReturn
    \/ ThreadReturn
    \/ SaveAndReturn
    \/ Advance
    \/ ExecuteAgain

SpecRepeat == InitRepeat /\ [][NextRepeat]_vars

\* ------------------------------- ParallelExecutor on a file of any language
\* Before the constructor: a source file of any extension, whose compiler
\* run ends in any way; the compiled or interpreted program is `sleep 1`
InitCompile ==
    /\ source \in Sources
    /\ self_command = NoCommand
    /\ compile_info = "none"
    /\ execution_type \in Strategies
    /\ iterations \in 1..MaxIter
    /\ cpu_count = 1
    /\ missing = FALSE
    /\ sleep = 1
    /\ program_args \in {NoArgs, <<(<<"x">>)>>}
    /\ pc = "idle"
    /\ FreshExecutor
    /\ CallerIdle

\* ParallelExecutor.__init__: self.command, self.compile_info =
\* self.compiler.compile_if_needed(file_path)
Construct ==
    /\ main_pc = "none"
    /\ pc = "idle"
    /\ self_command' = compile_if_needed(source).command
    /\ compile_info' = compile_if_needed(source).compile_info
    /\ pc' = "execute"
    /\ UNCHANGED <<execution_type, iterations, cpu_count, missing, sleep, source,
                   program_args, previous, callervars, error, preflight, command,
                   now, stage, n, results, seqvars, poolvars, spawned, outvars>>

NextCompile ==
    \/ Construct
    \/ Preflight
    \/ DispatchFork
    \/ DispatchThread
    \/ DispatchSubshell
    \/ ForkSpawn
    \/ ForkReap
    \/ ForkReturn
    \/ SubshellSpawn
    \/ SubshellDone
    \/ SubshellReturn
    \/ ThreadSubmit
    \/ \E k \in 1..MaxIter, w \in 1..MaxCpu : TaskStart(k, w)
    \/ \E k \in 1..MaxIter : TaskFinish(k)
    \/ \E k \in 1..MaxIter : TaskAcquire(k)
    \/ \E k \in 1..MaxIter : TaskAppend(k)
    \/ CollectResult
    \/ WarmupReturn
    \/ ThreadReturn
    \/ SaveAndReturn
    \/ Advance

SpecCompile == InitCompile /\ [][NextCompile]_vars

TypeOK ==
    /\ pc \in {"idle", "execute", "dispatch", "fork_loop", "fork_wait", "subshell_loop",
               "subshell_wait", "thread_submit", "thread_collect", "thread_shutdown",
               "merge", "returned", "raised"}
    /\ error \in {"none", "Exception", "ValueError", "KeyboardInterrupt"}
    /\ now \in Nat
    /\ Len(results) <= n

\* ================================================================== claims

Returned == pc \in {"merge", "returned"}

\* The command of the outcome that a step appends to `results`
AppendingBeh ==
    IF pc \in {"fork_wait", "subshell_wait"} THEN child.beh ELSE tasks[results_lock].beh

Appends == Len(results') = Len(results) + 1

\* how often iteration index it occurs in the outcome list rs
Occurrences(rs, it) == Cardinality({j \in 1..Len(rs) : rs[j].iteration = it})

\* C1: for each of the three strategies and every N >= 1 the returned result
\* has successful_iterations + failed_iterations = total_iterations = N,
\* whatever the iterations did.
C1_CountsAddUp ==
    (Returned /\ iterations >= 1) =>
        /\ ret.successful_iterations + ret.failed_iterations = ret.total_iterations
        /\ ret.total_iterations = iterations

C1_Witness ==
    /\ pc = "returned"
    /\ execution_type = "thread"
    /\ iterations = 2
    /\ ret.successful_iterations = 1
    /\ ret.failed_iterations = 1
    /\ \E k \in 1..2 : ret.metrics[k].exit_status = TimeoutSentinel

\* C2 (as claimed): under every strategy an iteration whose command outlives
\* the 10 s ceiling is recorded by exactly one outcome, with success = FALSE
\* and exit status 124.
C2_TimeoutSentinelEverywhere ==
    [][(Appends /\ AppendingBeh.kind = "hang") =>
            /\ Occurrences(results', Last(results').iteration) = 1
            /\ Last(results').success = FALSE
            /\ Last(results').exit_status = TimeoutSentinel]_vars

\* C3 (as claimed): with a nonexistent command execute returns, under each of
\* the three strategies, a run with no success and N failures.
C3_MissingCommandReturnsAllFailed ==
    (missing /\ execution_type \in Strategies /\ iterations >= 1 /\ pc # "execute") =>
        /\ pc # "raised"
        /\ Returned => (ret.successful_iterations = 0 /\ ret.failed_iterations = iterations)

\* C3 (amended): with a nonexistent command execute raises at the pre-flight
\* check under each of the three strategies: it returns no run, starts no
\* iteration and writes nothing.
C3_MissingCommandIsFatal ==
    (missing /\ execution_type \in Strategies /\ iterations >= 1 /\ pc # "execute") =>
        /\ pc = "raised"
        /\ error = "Exception"
        /\ ret = NoResult
        /\ results = <<>>
        /\ tasks = <<>>
        /\ spawned = 1
        /\ saved = {}

C3_Witness ==
    /\ missing
    /\ execution_type = "subshell"
    /\ iterations = 2
    /\ pc = "raised"
    /\ preflight = "oserror"

\* C4: the pre-flight check is fatal exactly when the spawn raises an OS-level
\* error; execute then raises before any iteration is started and before
\* anything is written.  A pre-flight that times out or exits with any status
\* passes and execute goes on to the dispatch.
C4_PreflightFatalIffSpawnError ==
    (pc # "execute") =>
        /\ (preflight = "oserror") <=> (pc = "raised" /\ error = "Exception")
        /\ (preflight = "oserror") =>
              (spawned = 1 /\ results = <<>> /\ tasks = <<>> /\ child = NoChild
               /\ ret = NoResult /\ saved = {})
        /\ (preflight \in {"timeout", "exited"} /\ execution_type \in Strategies
            /\ iterations >= 1) => pc # "raised"

C4_Witness ==
    /\ preflight = "timeout"
    /\ pc = "returned"
    /\ spawned > 1
    /\ ret.total_iterations = iterations

\* C5: in the pool strategy every iteration index appends exactly one outcome
\* under every interleaving of the workers: an index is in the list once when
\* its unit is done and not at all before, and the list handed to the
\* aggregation holds exactly the indices 1..N.
C5_OneOutcomePerIndex ==
    /\ \A k \in 1..Len(tasks) :
          Occurrences(results, k) = (IF tasks[k].st = "done" THEN 1 ELSE 0)
    /\ (Returned /\ execution_type = "thread") =>
          /\ Len(ret.metrics) = iterations
          /\ {ret.metrics[j].iteration : j \in 1..Len(ret.metrics)} = 1..iterations

C5_Witness ==
    /\ pc = "returned"
    /\ execution_type = "thread"
    /\ Len(ret.metrics) = 2
    /\ ret.metrics[1].iteration = 2
    /\ ret.metrics[2].iteration = 1

\* C6: the pool has min(N, cpu_count, 8) workers and never more iterations
\* than that have a child process running at the same time.
PoolDomain == 1..(MaxWorkersCap + 2)

C6_RunningBoundedByPool ==
    /\ Cardinality({j \in 1..Len(tasks) : tasks[j].st \in BlockedStates})
              <= (IF n <= cpu_count /\ n <= MaxWorkersCap THEN n
                  ELSE IF cpu_count <= MaxWorkersCap THEN cpu_count ELSE MaxWorkersCap)
    /\ \A a \in PoolDomain, c \in PoolDomain :
          /\ optimal_workers(a, c) \in {a, c, MaxWorkersCap}
          /\ optimal_workers(a, c) <= a
          /\ optimal_workers(a, c) <= c
          /\ optimal_workers(a, c) <= MaxWorkersCap

C6_Witness ==
    /\ stage = "measured"
    /\ n = 2
    /\ cpu_count = 1
    /\ Len(tasks) = 2
    /\ tasks[1].st = "child"
    /\ tasks[2].st = "queued"

\* C7 (as claimed): a 12 s collection wait never expires before the 10 s
\* ceiling of the unit it waits for has fired, also for units queued behind a
\* full pool; an expired wait is only logged, the collector goes on to the
\* next future and every outcome is still in the list that is analysed.
C7_CeilingFiresBeforeCollectWait ==
    [][/\ (pc = "thread_collect" /\ fut \notin logged /\ fut \in logged') =>
              /\ tasks[fut].beh.kind = "hang"
              /\ tasks[fut].st \in {"reaping", "ready", "locked"}
              /\ fut' = fut + 1
              /\ results' = results
              /\ pc' \in {"thread_collect", "thread_shutdown"}
       /\ (pc = "thread_shutdown" /\ pc' = "merge") => Len(results') = n]_vars

\* C8: the outcome list of the pool strategy changes only by the one append
\* of the worker that holds the lock, which releases it in the same step; the
\* lock is taken only by a worker whose child has finished or timed out, and
\* its holder is never blocked in subprocess.run.
C8_LockOnlyAroundAppend ==
    [][/\ (results_lock' # 0) => tasks'[results_lock'].st = "locked"
       /\ (results_lock = 0 /\ results_lock' # 0) => tasks[results_lock'].st = "ready"
       /\ (pc \in {"thread_collect", "thread_shutdown"} /\ pc' # "thread_submit"
           /\ results' # results) =>
              /\ results_lock # 0
              /\ tasks[results_lock].st = "locked"
              /\ results' = Append(results, tasks[results_lock].out)
              /\ results_lock' = 0]_vars

C8_Witness ==
    /\ results_lock = 1
    /\ Len(tasks) = 2
    /\ tasks[1].st = "locked"
    /\ tasks[1].beh.kind = "hang"
    /\ tasks[2].st \in BlockedStates

\* C9: under every strategy an iteration that times out, exits non-zero or
\* hits an OS-level error (a child-wait OSError of the fork strategy included)
\* appends one failed outcome and does not abort the run: execute raises only
\* before the first iteration, and the strategy returns a result for all N
\* iterations.
Failing(beh) == beh.kind # "exit" \/ beh.rc # 0

C10_ValuesNeverEmpty ==
    Returned =>
        LET v  == ret.execution_times.values
            ok == SelectSeq(ret.metrics, LAMBDA r : r.success)
        IN /\ Len(v) >= 1
           /\ IF Len(ok) = 0 THEN v = <<0>>
              ELSE /\ Len(v) = Len(ok)
                   /\ \A j \in 1..Len(ok) : v[j] = ok[j].execution_time
           /\ (Len(v) = 1) => ret.execution_times.stdev.sq_num = 0
           /\ (iterations = 1) => ret.execution_times.stdev.sq_num = 0

C10_Witness ==
    /\ pc = "returned"
    /\ execution_type = "fork"
    /\ iterations = 2
    /\ ret.successful_iterations = 0
    /\ ret.execution_times.values = <<0>>
    /\ ret.execution_times.stdev.sq_num = 0

\* C11: in the fork and subshell strategies at most one process of the run
\* exists at any time, the process of iteration p is created only when the
\* outcomes of iterations 1..p-1 are all recorded, and outcomes are recorded
\* in ascending index order 1..N.
C11_SequentialIterations ==
    execution_type \in {"fork", "subshell"} =>
        /\ Cardinality(procs) <= 1
        /\ \A p \in procs : Len(results) = p - 1
        /\ \A k \in 1..Len(results) : results[k].iteration = k

\* The second process of a fork run exists, the first outcome is recorded.
C11_Witness ==
    /\ execution_type = "fork"
    /\ procs = {2}
    /\ Len(results) = 1
    /\ results[1].iteration = 1

C13_UnsupportedTypeRaisesValueError ==
    execution_type \notin Strategies =>
        /\ pc \in {"execute", "dispatch"} \/ (pc = "raised" /\ error = "ValueError")
        /\ results = <<>> /\ ret = NoResult /\ saved = {}
        /\ spawned <= 1

\* C13 (amended): execute with an unrecognized execution_type always raises:
\* the configuration error when the pre-flight spawn passed, the pre-flight's
\* own error when it did not; the command is spawned by the pre-flight only,
\* no run is returned and nothing is persisted.
C13_UnsupportedTypeIsFatal ==
    execution_type \notin Strategies =>
        /\ \/ pc \in {"execute", "dispatch"}
           \/ /\ pc = "raised"
              /\ error = IF preflight = "oserror" THEN "Exception" ELSE "ValueError"
        /\ results = <<>> /\ ret = NoResult /\ saved = {}
        /\ spawned <= 1

\* The configuration error was raised after a passing pre-flight.
C13_Witness ==
    /\ execution_type \notin Strategies
    /\ pc = "raised"
    /\ error = "ValueError"
    /\ iterations = 2
    /\ spawned = 1

\* A strategy executor is entered
ExecutorPassStarts ==
    \/ pc = "dispatch" /\ pc' \in {"fork_loop", "thread_submit", "subshell_loop"}
    \/ pc \notin {"dispatch", "thread_submit"} /\ pc' = "thread_submit"

\* C17: an execute that passed the pre-flight enters a strategy executor once,
\* with nothing but the pre-flight spawn behind it, and when it returns with
\* N >= 1 the command has been spawned exactly N times since start_total_time.
C17_OneExecutorPass ==
    [][/\ ExecutorPassStarts => spawned = 1
       /\ (pc' = "returned" /\ iterations >= 1) => spawned' = iterations + 1]_vars

\* C19: a pool result without a successful iteration reports
\* actual_parallelism 0, thread_efficiency 0 and values [0.0]; every pool
\* result has thread_efficiency in [0, 1] and actual_parallelism >= 0.
C19_PoolMetricsBounded ==
    (execution_type = "thread" /\ Returned) =>
        LET c == ret.concurrency_analysis
        IN  /\ ret.successful_iterations = 0 =>
                /\ RatEq(c.actual_parallelism, Rat(0, 1))
                /\ RatEq(c.thread_efficiency, Rat(0, 1))
                /\ ret.execution_times.values = <<0>>
            /\ RatLeq(Rat(0, 1), c.thread_efficiency)
            /\ RatLeq(c.thread_efficiency, Rat(1, 1))
            /\ RatLeq(Rat(0, 1), c.actual_parallelism)

\* A pool run of two iterations returned without a success and without any
\* wall-clock time spent in the pool.
C19_Witness ==
    /\ execution_type = "thread"
    /\ pc = "returned"
    /\ ret.total_iterations = 2
    /\ ret.successful_iterations = 0
    /\ now = start_execution

\* C20: from the point where the result is computed execute always returns
\* it, with every field the strategy computed unchanged and the wall-clock
\* total added, and raises nothing; a write that left no document is logged.
C20_SaveFailureIsNotFatal ==
    [][pc = "merge" =>
        /\ pc' = "returned"
        /\ error' = "none"
        /\ \A f \in DOMAIN ret : f \in DOMAIN ret' /\ ret'[f] = ret[f]
        /\ ret'.total_execution_time = now
        /\ saved' = {} => save_logged']_vars

\* execute returned a two-iteration run whose JSON document was not written.
C20_Witness ==
    /\ pc = "returned"
    /\ saved = {}
    /\ save_logged
    /\ ret.total_iterations = 2
    /\ ret.successful_iterations = 1

\* C18: a pool run of `sleep d` with N > 1 iterations on a pool of at least
\* two workers (N >= 2 and cpu_count >= 2) takes less wall-clock time, from
\* start_execution to end_execution, than N*d, and reports an
\* actual_parallelism greater than 1.
C18_PoolOverlaps ==
    (pc = "returned" /\ sleep > 0 /\ execution_type = "thread"
        /\ iterations > 1 /\ cpu_count >= 2) =>
        /\ ret.successful_iterations = iterations
        /\ now - start_execution < iterations * sleep
        /\ RatLess(Rat(1, 1), ret.concurrency_analysis.actual_parallelism)

\* Four iterations of `sleep 1` on two workers: 2 s of wall-clock time and a
\* parallelism of 2.
C18_Witness ==
    /\ pc = "returned"
    /\ sleep = 1
    /\ iterations = 4
    /\ optimal_workers(iterations, cpu_count) = 2
    /\ now - start_execution = 2 * sleep
    /\ RatEq(ret.concurrency_analysis.actual_parallelism, Rat(2, 1))

\* The conditions of the recommendation table, as the claim lists them
TableCondition(run, cpus) ==
    \/ RatLess(success_rate(run), Rat(9, 10))
    \/ StdevAbove30Percent(run)
    \/ RatLess(mean_time(run), Rat(1, 1000))
    \/ RatLess(Rat(1, 1), mean_time(run))
    \/ /\ run.execution_type = "thread"
       /\ \/ RatLess(run.concurrency_analysis.thread_efficiency, Rat(1, 2))
          \/ run.unique_threads_used < Min2(run.total_iterations, cpus)
    \/ /\ run.execution_type = "subshell"
       /\ RatLess(run.isolation_analysis.isolation_efficiency, Rat(8, 10))

Elems(list) == {list[k] : k \in 1..Len(list)}

\* C15 (as stated): the recommendation list is the single "acceptable"
\* message exactly when no condition of the table holds, under every strategy.
C15_AcceptableIffNoTableCondition ==
    recommendations # <<>> =>
        (recommendations = <<"acceptable">> <=> ~TableCondition(ret, cpu_count))

\* C15 (amended): the recommendation list is the single "acceptable" message
\* exactly when no condition of the table holds and, under the fork
\* strategy, the mean is not below 0.01 s.
C15_AcceptableIffNoRuleFires ==
    recommendations # <<>> =>
        (recommendations = <<"acceptable">> <=>
            /\ ~TableCondition(ret, cpu_count)
            /\ ~(ret.execution_type = "fork" /\ RatLess(mean_time(ret), Rat(1, 100))))

\* A fork run with a mean of 5 ms and no table condition gets the fork
\* message instead of "acceptable".
C15_Witness ==
    /\ ret.execution_type = "fork"
    /\ mean_time(ret) = Rat(1, 200)
    /\ ~TableCondition(ret, cpu_count)
    /\ recommendations = <<"fork_short">>

\* C16: for a run with a mean below 0.001 s and a success rate of at least
\* 0.9, under any strategy, the list has the workload-too-small and the
\* imprecise-measurement messages and neither failure-rate message.
C16_SmallLoadNotInstability ==
    (/\ recommendations # <<>>
     /\ RatLess(mean_time(ret), Rat(1, 1000))
     /\ ~RatLess(success_rate(ret), Rat(9, 10))) =>
        /\ "too_small" \in Elems(recommendations)
        /\ "imprecise" \in Elems(recommendations)
        /\ "failure_rate" \notin Elems(recommendations)
        /\ "fork_failure" \notin Elems(recommendations)

\* mean = 0.0005, stdev = 0, success rate 1.0 under the subshell strategy
C16_Witness ==
    /\ ret.execution_type = "subshell"
    /\ mean_time(ret) = Rat(1, 2000)
    /\ ret.execution_times.stdev = ZeroStdev
    /\ ret.successful_iterations = ret.total_iterations
    /\ recommendations = <<"too_small", "imprecise">>

\* The iteration count the claim gives for a command line
ClaimedIterations(a) ==
    IF a.test_level # <<>> THEN iterations_map[a.test_level[1]]
    ELSE IF a.iterations # <<>> THEN a.iterations[1]
    ELSE DefaultIterations

\* C14: main runs execute with the value of --iterations (5 when omitted),
\* replaced by the --test-level mapping only when --test-level is given, and
\* the run execute returns has that many iterations.
C14_IterationsOptionHonoured ==
    /\ main_pc \in {"execute", "exit"} /\ argv.file_exists =>
            iterations = ClaimedIterations(argv)
    /\ main_pc = "execute" /\ pc = "returned" =>
            ret.total_iterations = ClaimedIterations(argv)

\* The command of the forked child being waited for returned 0 within the
\* ceiling
CommandReturnedZero == child.beh.kind = "exit" /\ child.beh.rc = 0

\* C25: a fork outcome of a child that terminated normally is a success
\* exactly when the command returned 0 within the ceiling, and its exit
\* status is the command's return code modulo 256 (never 0 for a negative
\* code), 124 on a timeout and 1 on a spawn failure; a child that did not
\* terminate normally is recorded as a failure with exit status -1.
C25_ForkSuccessIffCommandZero ==
    [][(pc = "fork_wait" /\ Appends) =>
          /\ Last(results').success <=> (CommandReturnedZero /\ child.wait = "exited")
          /\ child.wait = "exited" =>
                /\ Last(results').success <=> CommandReturnedZero
                /\ Last(results').exit_status =
                      IF child.beh.kind = "exit" THEN child.beh.rc % 256
                      ELSE IF child.beh.kind = "hang" THEN TimeoutSentinel
                      ELSE ExceptionExit
                /\ child.beh.kind = "exit" /\ child.beh.rc < 0 =>
                      Last(results').exit_status > 0
          /\ child.wait # "exited" =>
                /\ ~Last(results').success
                /\ Last(results').exit_status = NoStatus]_vars

\* A fork run recorded a signal-killed command (return code -9, status 247),
\* then a wait error on a command that returned 0.
C25_Witness ==
    /\ execution_type = "fork"
    /\ Len(results) = 2
    /\ results[1].exit_status = 247 /\ ~results[1].success
    /\ results[2].error /\ ~results[2].success

\* C26: with iterations = 0 the fork and subshell strategies return a result
\* of no iteration, values [0.0] and success rate 0, while the thread
\* strategy raises and returns nothing; so every result the thread strategy
\* returns has at least one outcome.
C26_ZeroIterations ==
    /\ (iterations = 0 /\ execution_type = "fork" /\ Returned) =>
            /\ ret.total_iterations = 0
            /\ ret.execution_times.values = <<0>>
            /\ RatEq(ret.parallel_efficiency.success_rate, Rat(0, 1))
    /\ (iterations = 0 /\ execution_type = "subshell" /\ Returned) =>
            /\ ret.total_iterations = 0
            /\ ret.execution_times.values = <<0>>
            /\ RatEq(ret.isolation_analysis.success_rate, Rat(0, 1))
    /\ (iterations = 0 /\ execution_type = "thread") =>
            /\ pc \in {"execute", "dispatch", "thread_submit", "raised"}
            /\ ret = NoResult
    /\ (execution_type = "thread" /\ Returned) => ret.metrics # <<>>

\* The pool strategy raised on iterations = 0 after a passing pre-flight.
C26_Witness ==
    /\ execution_type = "thread"
    /\ iterations = 0
    /\ preflight # "oserror"
    /\ pc = "raised"
    /\ error = "ValueError"

\* C29: for a run of N >= 1 iterations without a success the list has the
\* failure-rate message and both very-short-time messages, and neither
\* "acceptable" nor the variability nor the slow-workload message.
C29_AllFailedAdvice ==
    (/\ recommendations # <<>>
     /\ ret.total_iterations >= 1
     /\ ret.successful_iterations = 0) =>
        /\ "failure_rate" \in Elems(recommendations)
        /\ "too_small" \in Elems(recommendations)
        /\ "imprecise" \in Elems(recommendations)
        /\ "acceptable" \notin Elems(recommendations)
        /\ "variability" \notin Elems(recommendations)
        /\ "slow" \notin Elems(recommendations)

\* A subshell run of two iterations, both failed
C29_Witness ==
    /\ ret.execution_type = "subshell"
    /\ ret.total_iterations = 2
    /\ ret.successful_iterations = 0
    /\ recommendations = <<"failure_rate", "too_small", "isolation", "imprecise">>

\* C27: in execute the command is spawned by the pre-flight before the
\* selector is looked at: the first step of a call with an unrecognized
\* selector is the one pre-flight spawn, of the stored command followed by
\* the words of the extra arguments; the configuration error is raised
\* only after that spawn passed, and a failed pre-flight raises its own
\* error without the selector ever being validated.
C27_PreflightBeforeValidation ==
    [][execution_type \notin Strategies =>
         /\ pc = "execute" =>
               /\ spawned = 0 /\ spawned' = 1
               /\ command' = self_command \o
                               (IF program_args = NoArgs THEN <<>> ELSE split(program_args[1]))
               /\ preflight' \in {"exited", "timeout", "oserror"}
               /\ IF preflight' = "oserror"
                  THEN pc' = "raised" /\ error' = "Exception"
                  ELSE pc' = "dispatch" /\ error' = error
         /\ error' = "ValueError" /\ error # "ValueError" =>
               /\ pc = "dispatch" /\ pc' = "raised"
               /\ preflight \in {"exited", "timeout"}
               /\ spawned = 1 /\ spawned' = 1]_vars

\* The pre-flight of a call with an unrecognized selector found the command
\* missing: the caller has the spawn-failure error.
C27_Witness ==
    /\ execution_type \notin Strategies
    /\ missing
    /\ command = <<"python3", "file_path", "-n", "4">>
    /\ pc = "raised"
    /\ error = "Exception"
    /\ preflight = "oserror"
    /\ spawned = 1

\* C24: the recommendations are a function of the run's fields alone: as
\* long as the run is the same, regenerating them gives the same list,
\* whatever the CPU count of the host.
C24_RecommendationsDependOnRunOnly ==
    [][(recommendations # <<>> /\ ret' = ret) =>
          recommendations' = recommendations]_vars

\* C28: a pool run whose distinct workers equal the pool size
\* min(N, cpu_count, 8) of the host that ran it does not get the
\* under-utilization message.
C28_FullPoolNotUnderused ==
    [][(/\ recommendations = <<>>
        /\ recommendations' # <<>>
        /\ ret.unique_threads_used = optimal_workers(ret.total_iterations, cpu_count)) =>
          "thread_underuse" \notin Elems(recommendations')]_vars

\* C21: when main has written the report of a run whose JSON document was
\* saved, the report's name carries the timestamp of the document's name,
\* which is the run's timestamp field.
C21_ReportNamedAsJson ==
    (main_pc = "exit" /\ exit_code = 0 /\ saved # {}) =>
        /\ report_name = json_name
        /\ json_name = ret.timestamp

\* C22: main exits with 0 or 1; with 0 only when the file exists, execute
\* returned and no KeyboardInterrupt was raised during it; with 1 when the
\* file does not exist, when execute raised and when it was interrupted.
C22_ExitCodes ==
    main_pc = "exit" =>
        /\ exit_code \in {0, 1}
        /\ exit_code = 0 => (parse_args(argv).file_exists /\ pc = "returned" /\ ~interrupted)
        /\ (~parse_args(argv).file_exists \/ pc = "raised" \/ interrupted) => exit_code = 1

\* C23: execute leaves the stored command as it is and runs a copy of it
\* followed by the whitespace-separated words of the extra arguments; a
\* second call with the same arguments runs the same argv and ends as the
\* first did, with the outcomes and the child pids of its own iterations
\* only.
C23_ExecuteRepeatable ==
    [][/\ self_command' = self_command
       /\ pc = "execute" =>
             /\ command' = self_command \o
                             (IF program_args = NoArgs THEN <<>> ELSE split(program_args[1]))
             /\ previous.called => command' = previous.command
       /\ (previous.called /\ pc # "returned" /\ pc' = "returned") =>
             /\ ret' = previous.ret
             /\ Len(results') = iterations
             /\ execution_type = "fork" => Len(child_pids') = iterations
       /\ (previous.called /\ pc # "raised" /\ pc' = "raised") =>
             /\ error' = previous.error
             /\ spawned' = previous.spawned]_vars

\* The second of two fork runs of two iterations with extra arguments
\* " -n \t4" returned.
C23_Witness ==
    /\ previous.called
    /\ pc = "returned"
    /\ execution_type = "fork"
    /\ iterations = 2
    /\ self_command = <<"python3", "file_path">>
    /\ command = <<"python3", "file_path", "-n", "4">>
    /\ previous.command = command
    /\ Len(child_pids) = 2
    /\ ret = previous.ret

\* The tag of a failed compilation of a file with extension ext
ErrorTag(ext) ==
    IF ext = ".java" THEN "java_error"
    ELSE IF ext = ".cpp" THEN "cpp_error"
    ELSE IF ext = ".c" THEN "c_error"
    ELSE "go_error"

\* The compilation of the source given to the constructor failed
CompileFailed == source.ext \in CompiledExtensions /\ source.compiler # "ok"

\* C30: the constructor always returns; after a failed compilation of a
\* .java, .cpp, .c or .go file the stored command is `echo Erreur: ...`
\* tagged <lang>_error, execute on it passes the pre-flight, raises
\* nothing and returns a run of echo in which every iteration succeeded.
C30_CompileFailureRunsEcho ==
    pc # "idle" =>
        /\ self_command # NoCommand
        /\ compile_info # "raised"
        /\ CompileFailed =>
              /\ self_command = <<"echo", "Erreur">>
              /\ compile_info = ErrorTag(source.ext)
              /\ pc # "raised"
              /\ preflight \in {"none", "exited"}
              /\ pc = "returned" =>
                    /\ Head(command) = "echo"
                    /\ ret.total_iterations = iterations
                    /\ ret.successful_iterations = iterations

\* A fork run of two iterations returned after g++ ended with a non-zero
\* return code.
C30_Witness ==
    /\ source = [ext |-> ".cpp", compiler |-> "nonzero"]
    /\ compile_info = "cpp_error"
    /\ execution_type = "fork"
    /\ iterations = 2
    /\ pc = "returned"
    /\ command = <<"echo", "Erreur", "x">>
    /\ ret.successful_iterations = 2

====
